---- MODULE Spec2Model ----
(***************************************************************************)
(* The EXOD-backed borrowing vault (contract ExodTools): the per-account   *)
(* loan boxes, the two protocol parameters, the application's custody of   *)
(* the two assets, and the ABI methods that change them.  The repository   *)
(* holds three drafts of the contract that differ in the storage of a loan *)
(* box and in the checks of depositCollateral and borrowStablecoin; the    *)
(* variable draft says which one is deployed.                              *)
(*                                                                         *)
(* A method call is one step.  A failed assert, a uint64 overflow and a    *)
(* failed inner transaction abort the call and its transaction group: the  *)
(* step then changes only the variable last, which records the call.       *)
(***************************************************************************)
EXTENDS Integers, Sequences, FiniteSets

VARIABLES
    draft,                   \* which draft of the contract is deployed
    exodAssetId,             \* global state: the collateral asset
    stablecoinAssetId,       \* global state: the debt asset
    liquidationAddress,      \* global state: receiver of seized collateral
    collateralizationRatio,  \* global state, basis points
    liquidationThreshold,    \* global state, basis points
    loans,                   \* box map: account -> loan record (boxes that exist)
    appExodBalance,          \* EXOD held by the application account
    appStableBalance,        \* stablecoin held by the application account
    frozen,                  \* ledger: accounts whose EXOD holding is frozen
    latestTimestamp,         \* Global.latestTimestamp
    last                     \* the last call: method, arguments, outcome

vars == <<draft, exodAssetId, stablecoinAssetId, liquidationAddress,
          collateralizationRatio, liquidationThreshold, loans,
          appExodBalance, appStableBalance, frozen, latestTimestamp, last>>

params == <<collateralizationRatio, liquidationThreshold>>
identities == <<exodAssetId, stablecoinAssetId, liquidationAddress>>
custody == <<appExodBalance, appStableBalance>>

----------------------------------------------------------------------------
(* Bounds of the model *)

MaxAmount == 2        \* largest amount argument of one call
MaxCollateral == 2    \* largest collateralAmount a box reaches
MaxStable == 2        \* stablecoin ever supplied to the vault and not yet written off
MaxTime == 1          \* largest Global.latestTimestamp
Uint64Max == 1500000000  \* stands for 2^64 - 1: the largest uint64

Drafts == {"arc4", "plain", "bytes"}
Borrowers == {"alice"}
Accounts == {"creator", "alice"}   \* the accounts that call: the creator (a third party to the loan) and the borrower
App == "app"              \* Global.currentApplicationAddress
creatorAddress == "creator"  \* Global.creatorAddress
Amounts == 0..MaxAmount
Prices == {0, 500000, 1000000, 1000000000}
Thresholds == {10000, 12000}
Ratios == {12000, 15000}
\* the parameters createApplication is given: those of deploy-config, and a pair
\* with the ratio below the threshold
InitParams == {<<15000, 12000>>, <<12000, 15000>>}
\* the accounts that call liquidateLoan: the creator, the borrower, the beneficiary
Liquidators == Accounts \cup {"treasury"}
Freezable == {"alice"}   \* the holdings the asset's freeze manager acts on

PRICE_SCALE == 1000000
BPS_SCALE == 10000
MIN_THRESHOLD == 10000

----------------------------------------------------------------------------
(* uint64 arithmetic of the AVM: + and * fail on overflow, - on underflow *)

MulOverflows(a, b) == b > 0 /\ a > Uint64Max \div b
AddOverflows(a, b) == a > Uint64Max - b

----------------------------------------------------------------------------
(* Raw-bytes loan box of the "bytes" draft: three big-endian uint64 *)

RECURSIVE itobFrom(_, _)
itobFrom(n, k) == IF k = 0 THEN << >> ELSE Append(itobFrom(n \div 256, k - 1), n % 256)

itob(n) == itobFrom(n, 8)

RECURSIVE btoi(_)
btoi(b) == IF b = << >> THEN 0 ELSE 256 * btoi(SubSeq(b, 1, Len(b) - 1)) + b[Len(b)]

substring(b, start, end) == SubSeq(b, start + 1, end)

LoanData(collateral, borrowed, timestamp) ==
    [collateralAmount |-> collateral, borrowedAmount |-> borrowed, lastUpdateTime |-> timestamp]

\* a slip: the debt packed before the collateral
encodeLoanDataSwapped(collateral, borrowed, timestamp) ==
    (itob(borrowed) \o itob(collateral)) \o itob(timestamp)

encodeLoanData(collateral, borrowed, timestamp) ==
    (itob(collateral) \o itob(borrowed)) \o itob(timestamp)

decodeLoanData(data) ==
    LoanData(btoi(substring(data, 0, 8)), btoi(substring(data, 8, 16)), btoi(substring(data, 16, 24)))

\* op.extract(data, start, length) of the draft that reads the box with it
extract(b, start, length) == SubSeq(b, start + 1, start + length)

decodeLoanDataExtract(data) ==
    LoanData(btoi(extract(data, 0, 8)), btoi(extract(data, 8, 8)), btoi(extract(data, 16, 8)))

\* DataView.getBigUint64(byteOffset, false) of the off-chain helper: big-endian
getBigUint64(data, byteOffset) == btoi(SubSeq(data, byteOffset + 1, byteOffset + 8))

\* decodeLoanData of the off-chain helper
decodeLoanDataOffChain(data) ==
    LoanData(getBigUint64(data, 0), getBigUint64(data, 8), getBigUint64(data, 16))

\* what a later read of the box returns after the draft wrote these three values
BoxValue(collateral, borrowed, timestamp) ==
    IF draft = "bytes" THEN decodeLoanData(encodeLoanData(collateral, borrowed, timestamp))
    ELSE LoanData(collateral, borrowed, timestamp)

HasLoan(a) == a \in DOMAIN loans

\* a slip: a write stamps the time on every box
SetLoanStampsAll(a, collateral, borrowed, timestamp) ==
    [x \in DOMAIN loans \cup {a} |->
        IF x = a THEN BoxValue(collateral, borrowed, timestamp)
        ELSE [loans[x] EXCEPT !.lastUpdateTime = timestamp]]

SetLoan(a, collateral, borrowed, timestamp) ==
    [x \in DOMAIN loans \cup {a} |->
        IF x = a THEN BoxValue(collateral, borrowed, timestamp) ELSE loans[x]]

\* a slip: the time of the last update is left out of the returned tuple
getLoanInfoNoTime(user) ==
    IF HasLoan(user)
    THEN <<loans[user].collateralAmount, loans[user].borrowedAmount, 0>>
    ELSE <<0, 0, 0>>

\* the tuple getLoanInfo returns
getLoanInfo(user) ==
    IF HasLoan(user)
    THEN <<loans[user].collateralAmount, loans[user].borrowedAmount, loans[user].lastUpdateTime>>
    ELSE <<0, 0, 0>>

----------------------------------------------------------------------------
(* Valuation *)

CollateralValue(collateralAmount, exodPrice) == (collateralAmount * exodPrice) \div PRICE_SCALE

\* a slip: the required value scaled down by the price scale
RequiredCollateralWrongScale(borrowedAmount, ratio) == (borrowedAmount * ratio) \div PRICE_SCALE

RequiredCollateral(borrowedAmount, ratio) == (borrowedAmount * ratio) \div BPS_SCALE

\* a slip: the threshold value rounded up
ThresholdValueCeil(borrowedAmount, threshold) ==
    (borrowedAmount * threshold + BPS_SCALE - 1) \div BPS_SCALE

ThresholdValue(borrowedAmount, threshold) == (borrowedAmount * threshold) \div BPS_SCALE

\* a slip: the collateral for the required value rounded down
calculateRequiredCollateralFloor(borrowAmount, ratio, exodPrice) ==
    (((borrowAmount * ratio) \div BPS_SCALE) * PRICE_SCALE) \div exodPrice

\* the helper of the tests: the required value floored, the collateral for it
\* rounded up (exodPrice > 0)
calculateRequiredCollateral(borrowAmount, ratio, exodPrice) ==
    LET requiredValue == (borrowAmount * ratio) \div BPS_SCALE
    IN (requiredValue * PRICE_SCALE + exodPrice - 1) \div exodPrice

MaintainsRatio(collateralValue, requiredCollateral) == collateralValue >= requiredCollateral

\* a slip: a position exactly at the threshold counts as under-collateralized
UnderCollateralizedOrEqual(collateralValue, thresholdValue) == collateralValue <= thresholdValue

UnderCollateralized(collateralValue, thresholdValue) == collateralValue < thresholdValue

----------------------------------------------------------------------------
(* The record of a call *)

NoError == "ok"
Overflow == "uint64 overflow"
InnerTxnFailed == "inner transaction failed"

AssetTransfer(asset, receiver, amount) ==
    [xferAsset |-> asset, assetReceiver |-> receiver, assetAmount |-> amount]

\* the asset transfers a caller can put before the call in its group
PayTxn(sender, receiver, asset, amount) ==
    [sender |-> sender, assetReceiver |-> receiver, xferAsset |-> asset, assetAmount |-> amount]

Call(op, sender, borrower, amount, exodPrice, err, itxns) ==
    [op |-> op, sender |-> sender, borrower |-> borrower, amount |-> amount,
     exodPrice |-> exodPrice, newThreshold |-> 0, newRatio |-> 0,
     groupIndex |-> 0, paySender |-> "none", payReceiver |-> "none", payAsset |-> "none",
     ok |-> (err = NoError), err |-> err,
     itxns |-> IF err = NoError THEN itxns ELSE << >>,
     result |-> <<0, 0, 0>>]

\* the call of a method that takes the transfer before it in the group: amount is
\* the amount of that transfer
GroupCall(op, sender, groupIndex, payTxn, err) ==
    [Call(op, sender, sender, payTxn.assetAmount, 0, err, << >>)
        EXCEPT !.groupIndex = groupIndex, !.paySender = payTxn.sender,
               !.payReceiver = payTxn.assetReceiver, !.payAsset = payTxn.xferAsset]

ParamCall(sender, newThreshold, newRatio, err) ==
    [op |-> "updateLiquidationParams", sender |-> sender, borrower |-> sender, amount |-> 0,
     exodPrice |-> 0, newThreshold |-> newThreshold, newRatio |-> newRatio,
     groupIndex |-> 0, paySender |-> "none", payReceiver |-> "none", payAsset |-> "none",
     ok |-> (err = NoError), err |-> err, itxns |-> << >>, result |-> <<0, 0, 0>>]

Event(op, account) == Call(op, account, account, 0, 0, NoError, << >>)

OtherAccount(caller) == IF caller = "treasury" THEN "alice" ELSE "treasury"

\* <<group index of the call, the transfer before it>>: the well-formed transfers
\* of an asset, and one transfer for each way of being ill-formed
GroupCalls(caller, asset) ==
    {<<1, PayTxn(caller, App, asset, amount)>> : amount \in Amounts}
        \cup {<<1, PayTxn(caller, App, IF asset = "EXOD" THEN "STABLE" ELSE "EXOD", 1)>>,
              <<1, PayTxn(OtherAccount(caller), App, asset, 1)>>,
              <<1, PayTxn(caller, OtherAccount(caller), asset, 1)>>,
              <<0, PayTxn(caller, App, asset, 1)>>}

TotalDebt ==
    LET RECURSIVE Sum(_)
        Sum(S) == IF S = {} THEN 0
                  ELSE LET a == CHOOSE x \in S : TRUE
                       IN loans[a].borrowedAmount + Sum(S \ {a})
    IN Sum(DOMAIN loans)

----------------------------------------------------------------------------
(* createApplication: the state after the contract is created *)

createApplication(d, exod, stable, liqAddr, ratio, threshold) ==
    /\ draft = d
    /\ exodAssetId = exod
    /\ stablecoinAssetId = stable
    /\ liquidationAddress = liqAddr
    /\ collateralizationRatio = ratio
    /\ liquidationThreshold = threshold
    /\ loans = << >>
    /\ appExodBalance = 0
    /\ appStableBalance = 0
    /\ frozen = {}
    /\ latestTimestamp = 0
    /\ last = Event("createApplication", creatorAddress)

Init ==
    \E d \in Drafts, p \in InitParams :
        createApplication(d, "EXOD", "STABLE", "treasury", p[1], p[2])

----------------------------------------------------------------------------
(* depositCollateral *)

\* a slip: the amount of the transfer is not checked
IsPositiveUnchecked(assetAmount) == TRUE

\* assert(payTxn.assetAmount > 0)
IsPositive(assetAmount) == assetAmount > 0

GroupError(groupIndex) ==
    IF groupIndex > 0 THEN NoError
    ELSE IF draft = "bytes" THEN "transaction argument missing"
    ELSE "Must be called in a transaction group"

\* the compliance check of the "plain" draft; the other drafts have none
FrozenCheck(sender) == draft = "plain" => sender \notin frozen

depositCollateralErr(sender, groupIndex, collateralTxn) ==
    IF GroupError(groupIndex) # NoError THEN GroupError(groupIndex)
    ELSE IF collateralTxn.sender # sender THEN "Collateral must come from caller"
    ELSE IF collateralTxn.assetReceiver # App THEN "Collateral must go to contract"
    ELSE IF collateralTxn.xferAsset # exodAssetId THEN "Must transfer EXOD asset"
    ELSE IF ~IsPositive(collateralTxn.assetAmount) THEN "Collateral amount must be positive"
    ELSE IF ~FrozenCheck(sender) THEN "EXOD asset is frozen - compliance violation detected"
    ELSE IF HasLoan(sender) /\ AddOverflows(loans[sender].collateralAmount, collateralTxn.assetAmount)
         THEN Overflow
    ELSE NoError

\* a slip: the deposit replaces the stored collateral instead of adding to it
depositCollateralOverwrites(sender, groupIndex, collateralTxn) ==
    LET err == depositCollateralErr(sender, groupIndex, collateralTxn)
        borrowed == IF HasLoan(sender) THEN loans[sender].borrowedAmount ELSE 0
    IN /\ last' = GroupCall("depositCollateral", sender, groupIndex, collateralTxn, err)
       /\ IF err = NoError
          THEN /\ loans' = SetLoan(sender, collateralTxn.assetAmount, borrowed, latestTimestamp)
               /\ appExodBalance' = appExodBalance + collateralTxn.assetAmount
          ELSE UNCHANGED <<loans, appExodBalance>>
       /\ UNCHANGED <<draft, identities, params, appStableBalance, frozen, latestTimestamp>>

depositCollateral(sender, groupIndex, collateralTxn) ==
    LET err == depositCollateralErr(sender, groupIndex, collateralTxn)
        collateral == IF HasLoan(sender)
                      THEN loans[sender].collateralAmount + collateralTxn.assetAmount
                      ELSE collateralTxn.assetAmount
        borrowed == IF HasLoan(sender) THEN loans[sender].borrowedAmount ELSE 0
    IN /\ last' = GroupCall("depositCollateral", sender, groupIndex, collateralTxn, err)
       /\ IF err = NoError
          THEN /\ loans' = SetLoan(sender, collateral, borrowed, latestTimestamp)
               /\ appExodBalance' = appExodBalance + collateralTxn.assetAmount
          ELSE UNCHANGED <<loans, appExodBalance>>
       /\ UNCHANGED <<draft, identities, params, appStableBalance, frozen, latestTimestamp>>

----------------------------------------------------------------------------
(* borrowStablecoin *)

\* a slip: the transfer to the borrower is taken to succeed whatever the vault holds
LiquidityErrorIgnored(borrowAmount) == NoError

\* the "plain" draft asserts the liquidity; in the others the inner transfer fails
LiquidityError(borrowAmount) ==
    IF appStableBalance >= borrowAmount THEN NoError
    ELSE IF draft = "plain" THEN "Insufficient liquidity in vault"
    ELSE InnerTxnFailed

\* a slip: the requirement is computed on the amount of the call alone
borrowStablecoinErrOnDelta(sender, borrowAmount, exodPrice) ==
    IF ~HasLoan(sender) THEN "No collateral deposited"
    ELSE IF MulOverflows(loans[sender].collateralAmount, exodPrice) THEN Overflow
    ELSE IF AddOverflows(loans[sender].borrowedAmount, borrowAmount) THEN Overflow
    ELSE IF MulOverflows(borrowAmount, collateralizationRatio) THEN Overflow
    ELSE IF ~MaintainsRatio(CollateralValue(loans[sender].collateralAmount, exodPrice),
                            RequiredCollateral(borrowAmount, collateralizationRatio))
         THEN "Insufficient collateral for borrow amount"
    ELSE LiquidityError(borrowAmount)

borrowStablecoinErr(sender, borrowAmount, exodPrice) ==
    IF ~HasLoan(sender) THEN "No collateral deposited"
    ELSE IF MulOverflows(loans[sender].collateralAmount, exodPrice) THEN Overflow
    ELSE IF AddOverflows(loans[sender].borrowedAmount, borrowAmount) THEN Overflow
    ELSE IF MulOverflows(loans[sender].borrowedAmount + borrowAmount, collateralizationRatio)
         THEN Overflow
    ELSE IF ~MaintainsRatio(CollateralValue(loans[sender].collateralAmount, exodPrice),
                            RequiredCollateral(loans[sender].borrowedAmount + borrowAmount,
                                               collateralizationRatio))
         THEN "Insufficient collateral for borrow amount"
    ELSE LiquidityError(borrowAmount)

\* a slip: the debt is recorded and the application's holding is not lowered
borrowStablecoinPaysNothing(sender, borrowAmount, exodPrice) ==
    LET err == borrowStablecoinErr(sender, borrowAmount, exodPrice)
    IN /\ last' = Call("borrowStablecoin", sender, sender, borrowAmount, exodPrice, err,
                       <<AssetTransfer(stablecoinAssetId, sender, borrowAmount)>>)
       /\ IF err = NoError
          THEN loans' = SetLoan(sender, loans[sender].collateralAmount,
                                loans[sender].borrowedAmount + borrowAmount, latestTimestamp)
          ELSE UNCHANGED loans
       /\ UNCHANGED <<draft, identities, params, custody, frozen, latestTimestamp>>

borrowStablecoin(sender, borrowAmount, exodPrice) ==
    LET err == borrowStablecoinErr(sender, borrowAmount, exodPrice)
    IN /\ last' = Call("borrowStablecoin", sender, sender, borrowAmount, exodPrice, err,
                       <<AssetTransfer(stablecoinAssetId, sender, borrowAmount)>>)
       /\ IF err = NoError
          THEN /\ loans' = SetLoan(sender, loans[sender].collateralAmount,
                                   loans[sender].borrowedAmount + borrowAmount, latestTimestamp)
               /\ appStableBalance' = appStableBalance - borrowAmount
          ELSE UNCHANGED <<loans, appStableBalance>>
       /\ UNCHANGED <<draft, identities, params, appExodBalance, frozen, latestTimestamp>>

----------------------------------------------------------------------------
(* repayLoan *)

\* a slip: the repayment is not compared with the debt
CoversRepaymentUnchecked(borrowedAmount, repayAmount) == TRUE

CoversRepayment(borrowedAmount, repayAmount) == borrowedAmount >= repayAmount

\* a slip: the asset of the repayment is not compared with the stablecoin
repayLoanErrAnyAsset(sender, groupIndex, repaymentTxn) ==
    IF GroupError(groupIndex) # NoError THEN GroupError(groupIndex)
    ELSE IF repaymentTxn.sender # sender THEN "Repayment must come from caller"
    ELSE IF repaymentTxn.assetReceiver # App THEN "Repayment must go to contract"
    ELSE IF ~IsPositive(repaymentTxn.assetAmount) THEN "Repayment amount must be positive"
    ELSE IF ~HasLoan(sender) THEN "No active loan"
    ELSE IF ~CoversRepayment(loans[sender].borrowedAmount, repaymentTxn.assetAmount)
         THEN "Repayment exceeds borrowed amount"
    ELSE NoError

repayLoanErr(sender, groupIndex, repaymentTxn) ==
    IF GroupError(groupIndex) # NoError THEN GroupError(groupIndex)
    ELSE IF repaymentTxn.sender # sender THEN "Repayment must come from caller"
    ELSE IF repaymentTxn.assetReceiver # App THEN "Repayment must go to contract"
    ELSE IF repaymentTxn.xferAsset # stablecoinAssetId THEN "Must transfer stablecoin"
    ELSE IF ~IsPositive(repaymentTxn.assetAmount) THEN "Repayment amount must be positive"
    ELSE IF ~HasLoan(sender) THEN "No active loan"
    ELSE IF ~CoversRepayment(loans[sender].borrowedAmount, repaymentTxn.assetAmount)
         THEN "Repayment exceeds borrowed amount"
    ELSE NoError

\* a slip: the repayment is added to the debt
repayLoanAddsDebt(sender, groupIndex, repaymentTxn) ==
    LET err == repayLoanErr(sender, groupIndex, repaymentTxn)
    IN /\ last' = GroupCall("repayLoan", sender, groupIndex, repaymentTxn, err)
       /\ IF err = NoError
          THEN /\ loans' = SetLoan(sender, loans[sender].collateralAmount,
                                   loans[sender].borrowedAmount + repaymentTxn.assetAmount,
                                   latestTimestamp)
               /\ appStableBalance' = appStableBalance + repaymentTxn.assetAmount
          ELSE UNCHANGED <<loans, appStableBalance>>
       /\ UNCHANGED <<draft, identities, params, appExodBalance, frozen, latestTimestamp>>

repayLoan(sender, groupIndex, repaymentTxn) ==
    LET err == repayLoanErr(sender, groupIndex, repaymentTxn)
    IN /\ last' = GroupCall("repayLoan", sender, groupIndex, repaymentTxn, err)
       /\ IF err = NoError
          THEN /\ loans' = SetLoan(sender, loans[sender].collateralAmount,
                                   loans[sender].borrowedAmount - repaymentTxn.assetAmount,
                                   latestTimestamp)
               /\ appStableBalance' = appStableBalance + repaymentTxn.assetAmount
          ELSE UNCHANGED <<loans, appStableBalance>>
       /\ UNCHANGED <<draft, identities, params, appExodBalance, frozen, latestTimestamp>>

----------------------------------------------------------------------------
(* withdrawCollateral *)

\* a slip: the whole collateral cannot be withdrawn
CoversWithdrawalStrict(collateralAmount, withdrawAmount) == collateralAmount > withdrawAmount

CoversWithdrawal(collateralAmount, withdrawAmount) == collateralAmount >= withdrawAmount

\* a slip: the withdrawal does not look at the debt
withdrawCollateralErrNoRatio(sender, withdrawAmount, exodPrice) ==
    IF ~HasLoan(sender) THEN "No collateral deposited"
    ELSE IF ~CoversWithdrawal(loans[sender].collateralAmount, withdrawAmount)
         THEN "Insufficient collateral balance"
    ELSE IF MulOverflows(loans[sender].collateralAmount - withdrawAmount, exodPrice) THEN Overflow
    ELSE IF appExodBalance < withdrawAmount THEN InnerTxnFailed
    ELSE NoError

withdrawCollateralErr(sender, withdrawAmount, exodPrice) ==
    IF ~HasLoan(sender) THEN "No collateral deposited"
    ELSE IF ~CoversWithdrawal(loans[sender].collateralAmount, withdrawAmount)
         THEN "Insufficient collateral balance"
    ELSE IF MulOverflows(loans[sender].collateralAmount - withdrawAmount, exodPrice) THEN Overflow
    ELSE IF loans[sender].borrowedAmount > 0
            /\ MulOverflows(loans[sender].borrowedAmount, collateralizationRatio)
         THEN Overflow
    ELSE IF loans[sender].borrowedAmount > 0
            /\ ~MaintainsRatio(CollateralValue(loans[sender].collateralAmount - withdrawAmount,
                                               exodPrice),
                               RequiredCollateral(loans[sender].borrowedAmount,
                                                  collateralizationRatio))
         THEN "Withdrawal would under-collateralize loan"
    ELSE IF appExodBalance < withdrawAmount THEN InnerTxnFailed
    ELSE NoError

withdrawCollateral(sender, withdrawAmount, exodPrice) ==
    LET err == withdrawCollateralErr(sender, withdrawAmount, exodPrice)
    IN /\ last' = Call("withdrawCollateral", sender, sender, withdrawAmount, exodPrice, err,
                       <<AssetTransfer(exodAssetId, sender, withdrawAmount)>>)
       /\ IF err = NoError
          THEN /\ loans' = SetLoan(sender, loans[sender].collateralAmount - withdrawAmount,
                                   loans[sender].borrowedAmount, latestTimestamp)
               /\ appExodBalance' = appExodBalance - withdrawAmount
          ELSE UNCHANGED <<loans, appExodBalance>>
       /\ UNCHANGED <<draft, identities, params, appStableBalance, frozen, latestTimestamp>>

----------------------------------------------------------------------------
(* liquidateLoan *)

\* a slip: the liquidation does not compare the collateral value with the threshold
liquidateLoanErrAnyHealth(borrower, exodPrice) ==
    IF ~HasLoan(borrower) THEN "No active loan for borrower"
    ELSE IF ~(loans[borrower].borrowedAmount > 0) THEN "No outstanding loan"
    ELSE IF ~(loans[borrower].collateralAmount > 0) THEN "No collateral to liquidate"
    ELSE IF MulOverflows(loans[borrower].collateralAmount, exodPrice) THEN Overflow
    ELSE IF MulOverflows(loans[borrower].borrowedAmount, liquidationThreshold) THEN Overflow
    ELSE IF appExodBalance < loans[borrower].collateralAmount THEN InnerTxnFailed
    ELSE NoError

\* a slip: a liquidation at a price other than the price of the call before it is
\* turned down
liquidateLoanErrPriceConsistent(borrower, exodPrice) ==
    IF last.op \in {"borrowStablecoin", "withdrawCollateral", "liquidateLoan"}
          /\ exodPrice # last.exodPrice
    THEN "Price deviates from the last price"
    ELSE IF ~HasLoan(borrower) THEN "No active loan for borrower"
    ELSE IF ~(loans[borrower].borrowedAmount > 0) THEN "No outstanding loan"
    ELSE IF ~(loans[borrower].collateralAmount > 0) THEN "No collateral to liquidate"
    ELSE IF MulOverflows(loans[borrower].collateralAmount, exodPrice) THEN Overflow
    ELSE IF MulOverflows(loans[borrower].borrowedAmount, liquidationThreshold) THEN Overflow
    ELSE IF ~UnderCollateralized(CollateralValue(loans[borrower].collateralAmount, exodPrice),
                                 ThresholdValue(loans[borrower].borrowedAmount,
                                                liquidationThreshold))
         THEN "Loan is sufficiently collateralized"
    ELSE IF appExodBalance < loans[borrower].collateralAmount THEN InnerTxnFailed
    ELSE NoError

liquidateLoanErr(borrower, exodPrice) ==
    IF ~HasLoan(borrower) THEN "No active loan for borrower"
    ELSE IF ~(loans[borrower].borrowedAmount > 0) THEN "No outstanding loan"
    ELSE IF ~(loans[borrower].collateralAmount > 0) THEN "No collateral to liquidate"
    ELSE IF MulOverflows(loans[borrower].collateralAmount, exodPrice) THEN Overflow
    ELSE IF MulOverflows(loans[borrower].borrowedAmount, liquidationThreshold) THEN Overflow
    ELSE IF ~UnderCollateralized(CollateralValue(loans[borrower].collateralAmount, exodPrice),
                                 ThresholdValue(loans[borrower].borrowedAmount,
                                                liquidationThreshold))
         THEN "Loan is sufficiently collateralized"
    ELSE IF appExodBalance < loans[borrower].collateralAmount THEN InnerTxnFailed
    ELSE NoError

\* a slip: the liquidation clears every box
ClearedLoanOfAll(borrower) == [x \in DOMAIN loans |-> BoxValue(0, 0, latestTimestamp)]

\* a slip: the liquidation clears the collateral and keeps the debt
ClearedLoanKeepsDebt(borrower) ==
    SetLoan(borrower, 0, loans[borrower].borrowedAmount, latestTimestamp)

\* a slip: the liquidation deletes the box
ClearedLoanDeletesBox(borrower) == [x \in DOMAIN loans \ {borrower} |-> loans[x]]

\* a slip: the liquidation resets the time of the box with its amounts
ClearedLoanResetsTime(borrower) == SetLoan(borrower, 0, 0, 0)

\* the box after a liquidation
ClearedLoan(borrower) == SetLoan(borrower, 0, 0, latestTimestamp)

\* a slip: the liquidation clears the box and transfers nothing
SeizedAmountNone(borrower) == 0

\* the collateral the liquidation seizes
SeizedAmount(borrower) == loans[borrower].collateralAmount

\* a slip: the loan of a frozen account is not liquidated
liquidateLoanUnlessFrozen(sender, borrower, exodPrice) ==
    LET err == IF borrower \in frozen THEN "EXOD asset is frozen - compliance violation detected"
               ELSE liquidateLoanErr(borrower, exodPrice)
    IN /\ last' = Call("liquidateLoan", sender, borrower, 0, exodPrice, err,
                       <<AssetTransfer(exodAssetId, liquidationAddress, SeizedAmount(borrower))>>)
       /\ IF err = NoError
          THEN /\ loans' = ClearedLoan(borrower)
               /\ appExodBalance' = appExodBalance - SeizedAmount(borrower)
          ELSE UNCHANGED <<loans, appExodBalance>>
       /\ UNCHANGED <<draft, identities, params, appStableBalance, frozen, latestTimestamp>>

\* a slip: only the creator may liquidate
liquidateLoanCreatorOnly(sender, borrower, exodPrice) ==
    LET err == IF sender # creatorAddress THEN "Only creator can liquidate"
               ELSE liquidateLoanErr(borrower, exodPrice)
    IN /\ last' = Call("liquidateLoan", sender, borrower, 0, exodPrice, err,
                       <<AssetTransfer(exodAssetId, liquidationAddress, SeizedAmount(borrower))>>)
       /\ IF err = NoError
          THEN /\ loans' = ClearedLoan(borrower)
               /\ appExodBalance' = appExodBalance - SeizedAmount(borrower)
          ELSE UNCHANGED <<loans, appExodBalance>>
       /\ UNCHANGED <<draft, identities, params, appStableBalance, frozen, latestTimestamp>>

\* a slip: the box is cleared before it is known to exist
liquidateLoanClearsFirst(sender, borrower, exodPrice) ==
    LET err == liquidateLoanErr(borrower, exodPrice)
    IN /\ last' = Call("liquidateLoan", sender, borrower, 0, exodPrice, err,
                       <<AssetTransfer(exodAssetId, liquidationAddress, SeizedAmount(borrower))>>)
       /\ IF err = NoError
          THEN /\ loans' = ClearedLoan(borrower)
               /\ appExodBalance' = appExodBalance - SeizedAmount(borrower)
          ELSE /\ loans' = IF HasLoan(borrower) THEN loans ELSE ClearedLoan(borrower)
               /\ UNCHANGED appExodBalance
       /\ UNCHANGED <<draft, identities, params, appStableBalance, frozen, latestTimestamp>>

liquidateLoan(sender, borrower, exodPrice) ==
    LET err == liquidateLoanErr(borrower, exodPrice)
    IN /\ last' = Call("liquidateLoan", sender, borrower, 0, exodPrice, err,
                       <<AssetTransfer(exodAssetId, liquidationAddress, SeizedAmount(borrower))>>)
       /\ IF err = NoError
          THEN /\ loans' = ClearedLoan(borrower)
               /\ appExodBalance' = appExodBalance - SeizedAmount(borrower)
          ELSE UNCHANGED <<loans, appExodBalance>>
       /\ UNCHANGED <<draft, identities, params, appStableBalance, frozen, latestTimestamp>>

----------------------------------------------------------------------------
(* updateLiquidationParams *)

\* a slip: the sender is not compared with the creator
IsCreatorUnchecked(sender) == TRUE

IsCreator(sender) == sender = creatorAddress

\* a slip: a threshold of exactly 100% passes
ThresholdAtOrAbovePar(newThreshold) == newThreshold >= MIN_THRESHOLD

ThresholdAbovePar(newThreshold) == newThreshold > MIN_THRESHOLD

RatioAboveThreshold(newThreshold, newRatio) == newRatio > newThreshold

updateLiquidationParamsErr(sender, newThreshold, newRatio) ==
    IF ~IsCreator(sender) THEN "Only creator can update parameters"
    ELSE IF ~ThresholdAbovePar(newThreshold) THEN "Threshold must be > 100%"
    ELSE IF ~RatioAboveThreshold(newThreshold, newRatio)
         THEN "Collateralization ratio must be > liquidation threshold"
    ELSE NoError

\* a slip: a successful update makes its sender the receiver of seized collateral
updateLiquidationParamsSetsAddress(sender, newThreshold, newRatio) ==
    LET err == updateLiquidationParamsErr(sender, newThreshold, newRatio)
    IN /\ last' = ParamCall(sender, newThreshold, newRatio, err)
       /\ IF err = NoError
          THEN /\ liquidationThreshold' = newThreshold
               /\ collateralizationRatio' = newRatio
               /\ liquidationAddress' = sender
          ELSE UNCHANGED <<params, liquidationAddress>>
       /\ UNCHANGED <<draft, exodAssetId, stablecoinAssetId, loans, custody, frozen,
                      latestTimestamp>>

\* a slip: a successful update rewrites every box at the time of the update
updateLiquidationParamsMigrates(sender, newThreshold, newRatio) ==
    LET err == updateLiquidationParamsErr(sender, newThreshold, newRatio)
    IN /\ last' = ParamCall(sender, newThreshold, newRatio, err)
       /\ IF err = NoError
          THEN /\ liquidationThreshold' = newThreshold
               /\ collateralizationRatio' = newRatio
               /\ loans' = [a \in DOMAIN loans |->
                                [loans[a] EXCEPT !.lastUpdateTime = latestTimestamp]]
          ELSE UNCHANGED <<params, loans>>
       /\ UNCHANGED <<draft, identities, custody, frozen, latestTimestamp>>

updateLiquidationParams(sender, newThreshold, newRatio) ==
    LET err == updateLiquidationParamsErr(sender, newThreshold, newRatio)
    IN /\ last' = ParamCall(sender, newThreshold, newRatio, err)
       /\ IF err = NoError
          THEN /\ liquidationThreshold' = newThreshold
               /\ collateralizationRatio' = newRatio
          ELSE UNCHANGED params
       /\ UNCHANGED <<draft, identities, loans, custody, frozen, latestTimestamp>>

----------------------------------------------------------------------------
(* fundVault *)

\* a slip: only the creator may fund the vault
fundVaultErrCreatorOnly(sender, groupIndex, fundingTxn) ==
    IF sender # creatorAddress THEN "Only creator can fund the vault"
    ELSE IF GroupError(groupIndex) # NoError THEN GroupError(groupIndex)
    ELSE IF fundingTxn.sender # sender THEN "Funding must come from caller"
    ELSE IF fundingTxn.assetReceiver # App THEN "Funding must go to contract"
    ELSE IF fundingTxn.xferAsset # stablecoinAssetId THEN "Must transfer stablecoin"
    ELSE IF ~IsPositive(fundingTxn.assetAmount) THEN "Funding amount must be positive"
    ELSE NoError

fundVaultErr(sender, groupIndex, fundingTxn) ==
    IF GroupError(groupIndex) # NoError THEN GroupError(groupIndex)
    ELSE IF fundingTxn.sender # sender THEN "Funding must come from caller"
    ELSE IF fundingTxn.assetReceiver # App THEN "Funding must go to contract"
    ELSE IF fundingTxn.xferAsset # stablecoinAssetId THEN "Must transfer stablecoin"
    ELSE IF ~IsPositive(fundingTxn.assetAmount) THEN "Funding amount must be positive"
    ELSE NoError

fundVault(sender, groupIndex, fundingTxn) ==
    LET err == fundVaultErr(sender, groupIndex, fundingTxn)
    IN /\ last' = GroupCall("fundVault", sender, groupIndex, fundingTxn, err)
       /\ IF err = NoError
          THEN appStableBalance' = appStableBalance + fundingTxn.assetAmount
          ELSE UNCHANGED appStableBalance
       /\ UNCHANGED <<draft, identities, params, loans, appExodBalance, frozen, latestTimestamp>>

----------------------------------------------------------------------------
(* getLoanInfo as a call: it has no assert and writes nothing; the call record *)
(* keeps the tuple it returns                                                  *)

getLoanInfoCall(sender, user) ==
    /\ last' = [Call("getLoanInfo", sender, user, 0, 0, NoError, << >>)
                    EXCEPT !.result = getLoanInfo(user)]
    /\ UNCHANGED <<draft, identities, params, loans, custody, frozen, latestTimestamp>>

----------------------------------------------------------------------------
(* The ledger around the contract: block time, and the freeze of a holding *)

Tick ==
    /\ latestTimestamp < MaxTime
    /\ latestTimestamp' = latestTimestamp + 1
    /\ last' = Event("tick", App)
    /\ UNCHANGED <<draft, identities, params, loans, custody, frozen>>

freezeAssetForAccount(account, frozenFlag) ==
    /\ frozen' = IF frozenFlag THEN frozen \cup {account} ELSE frozen \ {account}
    /\ frozen' # frozen
    /\ last' = Event(IF frozenFlag THEN "freeze" ELSE "unfreeze", account)
    /\ UNCHANGED <<draft, identities, params, loans, custody, latestTimestamp>>

----------------------------------------------------------------------------
(* The calls, with the arguments the model draws *)

Deposit ==
    \E sender \in Borrowers : \E g \in GroupCalls(sender, "EXOD") :
        /\ (IF HasLoan(sender) THEN loans[sender].collateralAmount ELSE 0) + g[2].assetAmount
               <= MaxCollateral
        /\ depositCollateral(sender, g[1], g[2])

Borrow ==
    \E sender \in Borrowers, borrowAmount \in Amounts, exodPrice \in Prices :
        borrowStablecoin(sender, borrowAmount, exodPrice)

Repay ==
    \E sender \in Borrowers : \E g \in GroupCalls(sender, "STABLE") :
        repayLoan(sender, g[1], g[2])

Withdraw ==
    \E sender \in Borrowers, withdrawAmount \in Amounts, exodPrice \in Prices :
        withdrawCollateral(sender, withdrawAmount, exodPrice)

Liquidate ==
    \E sender \in Liquidators, borrower \in Borrowers, exodPrice \in Prices :
        liquidateLoan(sender, borrower, exodPrice)

UpdateParams ==
    \E sender \in Accounts, newThreshold \in Thresholds, newRatio \in Ratios :
        updateLiquidationParams(sender, newThreshold, newRatio)

Fund ==
    \E sender \in Accounts : \E g \in GroupCalls(sender, "STABLE") :
        /\ appStableBalance + TotalDebt + g[2].assetAmount <= MaxStable
        /\ fundVault(sender, g[1], g[2])

Freeze ==
    \E account \in Freezable, frozenFlag \in BOOLEAN : freezeAssetForAccount(account, frozenFlag)

GetLoanInfo ==
    \E sender \in Accounts, user \in Accounts : getLoanInfoCall(sender, user)

Next ==
    \/ Deposit
    \/ Borrow
    \/ Repay
    \/ Withdraw
    \/ Liquidate
    \/ UpdateParams
    \/ Fund
    \/ Freeze
    \/ GetLoanInfo
    \/ Tick

Spec == Init /\ [][Next]_vars

----------------------------------------------------------------------------
(* The vault with two borrowers, for the properties that relate the loans of   *)
(* different accounts: the deployed parameters, no freeze, fewer prices.       *)

BorrowersTwo == {"alice", "bob"}
PricesTwo == {500000, 1000000}

InitTwo ==
    \E d \in Drafts : createApplication(d, "EXOD", "STABLE", "treasury", 15000, 12000)

DepositTwo ==
    \E sender \in BorrowersTwo : \E g \in GroupCalls(sender, "EXOD") :
        /\ (IF HasLoan(sender) THEN loans[sender].collateralAmount ELSE 0) + g[2].assetAmount
               <= MaxCollateral
        /\ depositCollateral(sender, g[1], g[2])

BorrowTwo ==
    \E sender \in BorrowersTwo, borrowAmount \in Amounts, exodPrice \in PricesTwo :
        borrowStablecoin(sender, borrowAmount, exodPrice)

RepayTwo ==
    \E sender \in BorrowersTwo : \E g \in GroupCalls(sender, "STABLE") :
        repayLoan(sender, g[1], g[2])

WithdrawTwo ==
    \E sender \in BorrowersTwo, withdrawAmount \in Amounts, exodPrice \in PricesTwo :
        withdrawCollateral(sender, withdrawAmount, exodPrice)

LiquidateTwo ==
    \E sender \in BorrowersTwo, borrower \in BorrowersTwo, exodPrice \in PricesTwo :
        liquidateLoan(sender, borrower, exodPrice)

UpdateParamsTwo ==
    \E newThreshold \in Thresholds :
        updateLiquidationParams(creatorAddress, newThreshold, 15000)

FundTwo ==
    \E g \in GroupCalls(creatorAddress, "STABLE") :
        /\ appStableBalance + TotalDebt + g[2].assetAmount <= MaxStable
        /\ fundVault(creatorAddress, g[1], g[2])

NextTwo ==
    \/ DepositTwo
    \/ BorrowTwo
    \/ RepayTwo
    \/ WithdrawTwo
    \/ LiquidateTwo
    \/ UpdateParamsTwo
    \/ FundTwo
    \/ Tick

SpecTwo == InitTwo /\ [][NextTwo]_vars

----------------------------------------------------------------------------
(* The vault of one borrower whose box holds one more unit of collateral, with *)
(* the deployed parameters: the borrower's own calls, the funding, the clock.  *)

InitWide ==
    \E d \in Drafts : createApplication(d, "EXOD", "STABLE", "treasury", 15000, 12000)

DepositWide ==
    \E sender \in Borrowers : \E g \in GroupCalls(sender, "EXOD") :
        /\ (IF HasLoan(sender) THEN loans[sender].collateralAmount ELSE 0) + g[2].assetAmount
               <= MaxCollateral + 1
        /\ depositCollateral(sender, g[1], g[2])

NextWide ==
    \/ DepositWide
    \/ Borrow
    \/ Repay
    \/ Withdraw
    \/ Fund
    \/ Tick

SpecWide == InitWide /\ [][NextWide]_vars

----------------------------------------------------------------------------
(* The record encoding on its own: the bytes draft encodes three values, and   *)
(* the decoders of the two bytes drafts and of the off-chain helper read the   *)
(* bytes back.  The values are bounded by 2^31 - 1; they reach into the last   *)
(* four of the eight bytes of a field.                                         *)

Words == {0, 1, 255, 256, 65537, 2147483647}

InitCodec == createApplication("bytes", "EXOD", "STABLE", "treasury", 15000, 12000)

\* the three fields of a decoded record, in their order
Fields(loanData) ==
    <<loanData.collateralAmount, loanData.borrowedAmount, loanData.lastUpdateTime>>

encodeLoanDataRun(collateral, borrowed, timestamp) ==
    LET data == encodeLoanData(collateral, borrowed, timestamp)
    IN /\ last' = [op |-> "encodeLoanData", ok |-> TRUE,
                   collateral |-> collateral, borrowed |-> borrowed, timestamp |-> timestamp,
                   data |-> data,
                   decoded |-> Fields(decodeLoanData(data)),
                   decodedExtract |-> Fields(decodeLoanDataExtract(data)),
                   decodedOffChain |-> Fields(decodeLoanDataOffChain(data))]
       /\ UNCHANGED <<draft, identities, params, loans, custody, frozen, latestTimestamp>>

NextCodec ==
    \E collateral \in Words, borrowed \in Words, timestamp \in Words :
        encodeLoanDataRun(collateral, borrowed, timestamp)

SpecCodec == InitCodec /\ [][NextCodec]_vars

----------------------------------------------------------------------------
(* Properties.  In a step, last' is the call made, the unprimed variables are *)
(* the state before it and the primed ones the state after it.                *)

Succeeded(op) == last.op = op /\ last.ok

\* the loan of the call's account before and after the call
Before == loans[last'.borrower]
After == loans'[last'.borrower]

\* the two products of a valuation fit in a uint64
Computable(collateral, exodPrice, borrowed, bps) ==
    ~MulOverflows(collateral, exodPrice) /\ ~MulOverflows(borrowed, bps)

(* C1 as stated: after a successful borrowStablecoin or withdrawCollateral at   *)
(* price p that leaves a debt, collateralValue * 10000 >= debt * ratio, the     *)
(* right-hand side not floored.                                                 *)
C1_SolvencyExact ==
    (last.op \in {"borrowStablecoin", "withdrawCollateral"} /\ last.ok
        /\ loans[last.sender].borrowedAmount > 0)
    => ((loans[last.sender].collateralAmount * last.exodPrice) \div 1000000) * 10000
           >= loans[last.sender].borrowedAmount * collateralizationRatio

(* C1 amended: after a successful borrowStablecoin or withdrawCollateral at     *)
(* price p that leaves a debt, collateralValue >= floor(debt * ratio / 10000).  *)
C1_SolvencyFloored ==
    (last.op \in {"borrowStablecoin", "withdrawCollateral"} /\ last.ok
        /\ loans[last.sender].borrowedAmount > 0)
    => (loans[last.sender].collateralAmount * last.exodPrice) \div 1000000
           >= (loans[last.sender].borrowedAmount * collateralizationRatio) \div 10000

\* a borrow was accepted on a debt whose required value is floored (1 * 15000 / 10000)
C1_Witness ==
    /\ Succeeded("borrowStablecoin")
    /\ last.amount > 0
    /\ loans[last.sender].borrowedAmount > 0
    /\ (loans[last.sender].borrowedAmount * collateralizationRatio) % 10000 # 0

(* C2 as stated: on a loan with debt > 0 and collateral > 0, liquidateLoan      *)
(* succeeds if and only if collateralValue * 10000 < debt * threshold.          *)
C2_LiquidatableExact ==
    [][(last'.op = "liquidateLoan" /\ HasLoan(last'.borrower)
            /\ Before.borrowedAmount > 0 /\ Before.collateralAmount > 0
            /\ Computable(Before.collateralAmount, last'.exodPrice,
                          Before.borrowedAmount, liquidationThreshold))
        => (last'.ok <=>
              ((Before.collateralAmount * last'.exodPrice) \div 1000000) * 10000
                  < Before.borrowedAmount * liquidationThreshold)]_vars

(* C2 amended: on a loan with debt > 0 and collateral > 0, liquidateLoan        *)
(* succeeds if and only if both products fit in a uint64 and                    *)
(* collateralValue < floor(debt * threshold / 10000).                           *)
C2_LiquidatableFloored ==
    [][(last'.op = "liquidateLoan" /\ HasLoan(last'.borrower)
            /\ Before.borrowedAmount > 0 /\ Before.collateralAmount > 0)
        => (last'.ok <=>
              /\ Computable(Before.collateralAmount, last'.exodPrice,
                            Before.borrowedAmount, liquidationThreshold)
              /\ (Before.collateralAmount * last'.exodPrice) \div 1000000
                    < (Before.borrowedAmount * liquidationThreshold) \div 10000)]_vars

\* a loan was liquidated at a positive price
C2_Witness == Succeeded("liquidateLoan") /\ last.exodPrice > 0

(* C3: liquidateLoan on a loan whose collateralValue is at or above             *)
(* floor(debt * threshold / 10000) is rejected and changes no loan and no       *)
(* custody balance; with collateralValue strictly below, it is accepted.        *)
C3_StrictThreshold ==
    [][(last'.op = "liquidateLoan" /\ HasLoan(last'.borrower)
            /\ Before.borrowedAmount > 0 /\ Before.collateralAmount > 0
            /\ Computable(Before.collateralAmount, last'.exodPrice,
                          Before.borrowedAmount, liquidationThreshold))
        => IF (Before.collateralAmount * last'.exodPrice) \div 1000000
                 >= (Before.borrowedAmount * liquidationThreshold) \div 10000
           THEN ~last'.ok /\ UNCHANGED <<loans, custody>>
           ELSE last'.ok]_vars

\* a liquidation was rejected on a loan exactly at the threshold value
C3_Witness ==
    /\ last.op = "liquidateLoan" /\ ~last.ok
    /\ last.err = "Loan is sufficiently collateralized"
    /\ loans[last.borrower].borrowedAmount > 0
    /\ (loans[last.borrower].collateralAmount * last.exodPrice) \div 1000000
         = (loans[last.borrower].borrowedAmount * liquidationThreshold) \div 10000

(* C4: a successful liquidateLoan makes exactly one transfer, of the borrower's *)
(* whole collateral, in the collateral asset, to liquidationAddress, and leaves *)
(* the loan with collateral 0, debt 0 and lastUpdateTime = now.                 *)
C4_LiquidationAllOrNothing ==
    [][(last'.op = "liquidateLoan" /\ last'.ok)
        => /\ last'.itxns = <<[xferAsset |-> exodAssetId,
                               assetReceiver |-> liquidationAddress,
                               assetAmount |-> Before.collateralAmount]>>
           /\ After = [collateralAmount |-> 0, borrowedAmount |-> 0,
                       lastUpdateTime |-> latestTimestamp]
           /\ appExodBalance' = appExodBalance - Before.collateralAmount
           /\ appStableBalance' = appStableBalance]_vars

\* a caller that is not the beneficiary liquidated a loan after time 0
C4_Witness ==
    /\ Succeeded("liquidateLoan")
    /\ last.sender # liquidationAddress
    /\ last.itxns[1].assetAmount > 0
    /\ latestTimestamp > 0
    /\ loans[last.borrower].lastUpdateTime = latestTimestamp

(* C5: a depositCollateral whose sender's EXOD holding is frozen at the time of *)
(* the call is rejected and leaves the loans as they were.                      *)
(* A deposit by a sender that is not frozen is not refused for compliance.       *)
C5_FrozenDepositRejected ==
    [][/\ (last'.op = "depositCollateral" /\ last'.sender \in frozen)
          => (~last'.ok /\ UNCHANGED loans)
       /\ (last'.op = "depositCollateral" /\ last'.sender \notin frozen /\ ~last'.ok)
          => last'.err # "EXOD asset is frozen - compliance violation detected"]_vars

(* C6: in every reachable state, from createApplication on,                     *)
(* collateralizationRatio > liquidationThreshold > 10000.                       *)
C6_ParameterOrdering ==
    collateralizationRatio > liquidationThreshold /\ liquidationThreshold > 10000

(* C7: updateLiquidationParams called by an account other than the creator is   *)
(* rejected and leaves both parameters unchanged, whatever values it supplies.  *)
C7_UpdateAdminOnly ==
    [][(last'.op = "updateLiquidationParams" /\ last'.sender # creatorAddress)
        => (~last'.ok /\ UNCHANGED params)]_vars

\* an account other than the creator was refused an update with well-ordered values
C7_Witness ==
    /\ last.op = "updateLiquidationParams" /\ ~last.ok
    /\ last.sender # creatorAddress
    /\ last.newThreshold > 10000 /\ last.newRatio > last.newThreshold
    /\ <<last.newRatio, last.newThreshold>> # params

(* C8: updateLiquidationParams called by the creator with newThreshold <= 10000 *)
(* or newRatio <= newThreshold is rejected and leaves both parameters           *)
(* unchanged; otherwise it sets both parameters to the supplied values.         *)
C8_UpdateValidation ==
    [][(last'.op = "updateLiquidationParams" /\ last'.sender = creatorAddress)
        => IF last'.newThreshold <= 10000 \/ last'.newRatio <= last'.newThreshold
           THEN ~last'.ok /\ UNCHANGED params
           ELSE /\ last'.ok
                /\ liquidationThreshold' = last'.newThreshold
                /\ collateralizationRatio' = last'.newRatio]_vars

\* the creator's update was accepted and both parameters hold the supplied values
C8_Witness ==
    /\ Succeeded("updateLiquidationParams")
    /\ liquidationThreshold = last.newThreshold
    /\ collateralizationRatio = last.newRatio

(* C9: repayLoan of more than the debt and withdrawCollateral of more than the  *)
(* collateral are rejected and leave the loan unchanged; a successful repayLoan *)
(* or withdrawCollateral lowers the amount by exactly the delta; no loan ever   *)
(* holds a negative amount.                                                     *)
C9_NoUnderflowNoClamping ==
    [][/\ (last'.op = "repayLoan" /\ HasLoan(last'.sender)
              /\ last'.amount > Before.borrowedAmount)
          => (~last'.ok /\ UNCHANGED loans)
       /\ (last'.op = "withdrawCollateral" /\ HasLoan(last'.sender)
              /\ last'.amount > Before.collateralAmount)
          => (~last'.ok /\ UNCHANGED loans)
       /\ (last'.op = "repayLoan" /\ last'.ok)
          => /\ After.borrowedAmount = Before.borrowedAmount - last'.amount
             /\ After.collateralAmount = Before.collateralAmount
       /\ (last'.op = "withdrawCollateral" /\ last'.ok)
          => /\ After.collateralAmount = Before.collateralAmount - last'.amount
             /\ After.borrowedAmount = Before.borrowedAmount
       /\ \A a \in DOMAIN loans' :
              loans'[a].collateralAmount >= 0 /\ loans'[a].borrowedAmount >= 0]_vars

\* a repayment above a positive debt was refused
C9_Witness ==
    /\ last.op = "repayLoan" /\ ~last.ok
    /\ last.err = "Repayment exceeds borrowed amount"
    /\ loans[last.sender].borrowedAmount > 0
    /\ last.amount > loans[last.sender].borrowedAmount

(* C10: borrowStablecoin with borrowAmount = 0 and withdrawCollateral with      *)
(* withdrawAmount = 0 on an existing loan are rejected and leave the loan       *)
(* unchanged, lastUpdateTime included.                                          *)
C10_ZeroAmountRejected ==
    [][(last'.op \in {"borrowStablecoin", "withdrawCollateral"}
            /\ last'.amount = 0 /\ HasLoan(last'.sender))
        => (~last'.ok /\ UNCHANGED loans)]_vars

(* C11: a depositCollateral whose transfer carries amount 0 and a repayLoan     *)
(* whose transfer carries amount 0 are rejected and leave the loans unchanged:  *)
(* a zero deposit by an account without a box creates no box.                   *)
C11_ZeroTransferRejected ==
    [][(last'.op \in {"depositCollateral", "repayLoan"} /\ last'.amount = 0)
        => (~last'.ok /\ UNCHANGED loans /\ UNCHANGED custody)]_vars

\* a well-formed deposit of amount 0 by an account without a box was refused
C11_Witness ==
    /\ last.op = "depositCollateral" /\ ~last.ok
    /\ last.groupIndex > 0
    /\ last.paySender = last.sender /\ last.payReceiver = App /\ last.payAsset = exodAssetId
    /\ last.amount = 0
    /\ ~HasLoan(last.sender)
    /\ getLoanInfo(last.sender) = <<0, 0, 0>>


\* the transfer before the call is from the caller, to the application, in the asset
WellPaired(call, asset) ==
    /\ call.groupIndex > 0
    /\ call.paySender = call.sender
    /\ call.payReceiver = App
    /\ call.payAsset = asset

(* C12: depositCollateral (repayLoan) succeeds only with a preceding transfer   *)
(* from the caller to the application in the EXOD asset (the stablecoin); it    *)
(* then adds to collateralAmount (takes from borrowedAmount) exactly the amount *)
(* of the transfer, as the custody does; with any other transfer the call is    *)
(* rejected and the loans are unchanged.                                        *)
C12_PairedTransfer ==
    [][/\ (last'.op = "depositCollateral" /\ ~WellPaired(last', exodAssetId))
          => (~last'.ok /\ UNCHANGED <<loans, custody>>)
       /\ (last'.op = "repayLoan" /\ ~WellPaired(last', stablecoinAssetId))
          => (~last'.ok /\ UNCHANGED <<loans, custody>>)
       /\ (last'.op = "depositCollateral" /\ last'.ok)
          => /\ After.collateralAmount
                  = (IF HasLoan(last'.sender) THEN Before.collateralAmount ELSE 0)
                      + last'.amount
             /\ After.borrowedAmount = (IF HasLoan(last'.sender) THEN Before.borrowedAmount ELSE 0)
             /\ appExodBalance' = appExodBalance + last'.amount
             /\ appStableBalance' = appStableBalance
       /\ (last'.op = "repayLoan" /\ last'.ok)
          => /\ After.borrowedAmount = Before.borrowedAmount - last'.amount
             /\ After.collateralAmount = Before.collateralAmount
             /\ appStableBalance' = appStableBalance + last'.amount
             /\ appExodBalance' = appExodBalance]_vars

\* a well-paired deposit was credited on top of collateral already held
C12_Witness ==
    /\ Succeeded("depositCollateral")
    /\ WellPaired(last, exodAssetId)
    /\ last.amount > 0
    /\ loans[last.sender].collateralAmount > last.amount


(* C13: borrowStablecoin, repayLoan and withdrawCollateral by an account that   *)
(* has no box, and liquidateLoan of such an account, are rejected whatever the  *)
(* arguments, and create no box: getLoanInfo still returns (0, 0, 0).           *)
C13_NotFound ==
    [][(last'.op \in {"borrowStablecoin", "repayLoan", "withdrawCollateral", "liquidateLoan"}
            /\ ~HasLoan(last'.borrower))
        => /\ ~last'.ok
           /\ last'.itxns = << >>
           /\ UNCHANGED <<loans, custody>>
           /\ last'.borrower \notin DOMAIN loans']_vars

\* the liquidation of an account without a box was refused while the vault held funds
C13_Witness ==
    /\ last.op = "liquidateLoan" /\ ~last.ok
    /\ last.err = "No active loan for borrower"
    /\ last.sender # last.borrower
    /\ ~HasLoan(last.borrower)
    /\ getLoanInfo(last.borrower) = <<0, 0, 0>>
    /\ appStableBalance > 0


(* C14: borrowStablecoin, withdrawCollateral and liquidateLoan called with      *)
(* exodPrice = 0 are rejected, change no loan and make no transfer; so          *)
(* liquidateLoan at price 0 seizes nothing.                                     *)
C14_ZeroPriceRejected ==
    [][(last'.op \in {"borrowStablecoin", "withdrawCollateral", "liquidateLoan"}
            /\ last'.exodPrice = 0)
        => (~last'.ok /\ last'.itxns = << >> /\ UNCHANGED <<loans, custody>>)]_vars


(* C15: borrowStablecoin, withdrawCollateral and liquidateLoan either fail,     *)
(* with no transfer made and loans and custody as before the call, or succeed   *)
(* with the box updated and exactly its one transfer made out of the custody.   *)
(* A borrowStablecoin of more stablecoin than the application holds fails.      *)
C15_AllOrNothing ==
    [][/\ (last'.op \in {"borrowStablecoin", "withdrawCollateral", "liquidateLoan"}
              /\ ~last'.ok)
          => (last'.itxns = << >> /\ UNCHANGED <<loans, custody>>)
       /\ (last'.op = "borrowStablecoin" /\ last'.amount > appStableBalance) => ~last'.ok
       /\ (last'.op = "borrowStablecoin" /\ last'.ok)
          => /\ last'.itxns = <<AssetTransfer(stablecoinAssetId, last'.sender, last'.amount)>>
             /\ appStableBalance' = appStableBalance - last'.amount
             /\ appExodBalance' = appExodBalance
             /\ After.borrowedAmount = Before.borrowedAmount + last'.amount
       /\ (last'.op = "withdrawCollateral" /\ last'.ok)
          => /\ last'.itxns = <<AssetTransfer(exodAssetId, last'.sender, last'.amount)>>
             /\ appExodBalance' = appExodBalance - last'.amount
             /\ appStableBalance' = appStableBalance
             /\ After.collateralAmount = Before.collateralAmount - last'.amount
       /\ (last'.op = "liquidateLoan" /\ last'.ok)
          => /\ last'.itxns
                  = <<AssetTransfer(exodAssetId, liquidationAddress, Before.collateralAmount)>>
             /\ appExodBalance' = appExodBalance - Before.collateralAmount
             /\ appStableBalance' = appStableBalance
             /\ After.collateralAmount = 0
       /\ appExodBalance' >= 0 /\ appStableBalance' >= 0]_vars

\* a borrow the collateral covers failed in its transfer: the vault held too little
C15_Witness ==
    /\ last.op = "borrowStablecoin" /\ ~last.ok
    /\ last.err \in {InnerTxnFailed, "Insufficient liquidity in vault"}
    /\ last.amount > appStableBalance
    /\ appStableBalance > 0
    /\ MaintainsRatio(CollateralValue(loans[last.sender].collateralAmount, last.exodPrice),
                      RequiredCollateral(loans[last.sender].borrowedAmount + last.amount,
                                         collateralizationRatio))


\* whether the loan of an account can be liquidated at a price, from the state alone
Liquidatable(borrower, exodPrice) ==
    /\ HasLoan(borrower)
    /\ loans[borrower].borrowedAmount > 0
    /\ loans[borrower].collateralAmount > 0
    /\ Computable(loans[borrower].collateralAmount, exodPrice,
                  loans[borrower].borrowedAmount, liquidationThreshold)
    /\ (loans[borrower].collateralAmount * exodPrice) \div 1000000
          < (loans[borrower].borrowedAmount * liquidationThreshold) \div 10000

(* C16: the outcome of liquidateLoan is a function of the state, the borrower   *)
(* and the price, and not of the caller: whoever calls (the borrower itself,    *)
(* the creator, the beneficiary), the call is accepted exactly when the loan is *)
(* liquidatable, and then the box is cleared and the whole collateral goes to   *)
(* liquidationAddress; otherwise nothing changes.                               *)
C16_PermissionlessLiquidation ==
    [][(last'.op = "liquidateLoan")
        => IF Liquidatable(last'.borrower, last'.exodPrice)
           THEN /\ last'.ok
                /\ last'.itxns = <<AssetTransfer(exodAssetId, liquidationAddress,
                                                 Before.collateralAmount)>>
                /\ loans' = [loans EXCEPT ![last'.borrower] =
                                LoanData(0, 0, latestTimestamp)]
                /\ appExodBalance' = appExodBalance - Before.collateralAmount
                /\ appStableBalance' = appStableBalance
           ELSE /\ ~last'.ok
                /\ last'.itxns = << >>
                /\ UNCHANGED <<loans, custody>>]_vars

\* the borrower liquidated its own loan
C16_Witness ==
    /\ Succeeded("liquidateLoan")
    /\ last.sender = last.borrower
    /\ last.itxns[1].assetReceiver # last.sender
    /\ last.itxns[1].assetAmount > 0


(* C17: liquidateLoan does not depend on the frozen status of the borrower's    *)
(* EXOD holding: on a borrower that is frozen it is accepted exactly when the   *)
(* loan is liquidatable, as on one that is not, and it then seizes the whole    *)
(* collateral; the call does not change the frozen status.                      *)
C17_LiquidationIgnoresFreeze ==
    [][(last'.op = "liquidateLoan")
        => /\ (last'.ok <=> Liquidatable(last'.borrower, last'.exodPrice))
           /\ (last'.ok /\ last'.borrower \in frozen)
              => /\ last'.itxns[1].assetAmount = Before.collateralAmount
                 /\ After.collateralAmount = 0 /\ After.borrowedAmount = 0
           /\ frozen' = frozen]_vars

\* under the draft that refuses a frozen deposit, the loan of an account frozen
\* after its deposit was liquidated
C17_Witness ==
    /\ draft = "plain"
    /\ Succeeded("liquidateLoan")
    /\ last.borrower \in frozen
    /\ last.itxns[1].assetAmount > 0


(* C18: the box of an account A changes in a step only if A is the caller or    *)
(* the step is a successful liquidateLoan of A: every depositCollateral,        *)
(* borrowStablecoin, repayLoan, withdrawCollateral, fundVault and               *)
(* updateLiquidationParams of another account, and every rejected               *)
(* liquidateLoan, leaves A's box as it was (or absent).                         *)
C18_AccountIsolation ==
    [][\A a \in BorrowersTwo :
          (/\ ~(last'.op \in {"depositCollateral", "borrowStablecoin", "repayLoan",
                             "withdrawCollateral"} /\ last'.sender = a)
           /\ ~(last'.op = "liquidateLoan" /\ last'.ok /\ last'.borrower = a))
          => /\ (a \in DOMAIN loans') <=> HasLoan(a)
             /\ HasLoan(a) => loans'[a] = loans[a]]_vars

\* another account borrowed at a later time than the last write of a loan with
\* debt, which the step left as it was
C18_Witness ==
    /\ Succeeded("borrowStablecoin") /\ last.amount > 0
    /\ \E a \in BorrowersTwo \ {last.sender} :
          /\ HasLoan(a)
          /\ loans[a].borrowedAmount > 0
          /\ loans[a].lastUpdateTime < latestTimestamp
          /\ loans[last.sender].lastUpdateTime = latestTimestamp


\* the methods an account calls on its own box
OwnOps == {"depositCollateral", "borrowStablecoin", "repayLoan", "withdrawCollateral"}

\* whether an account has a box, and the box (zeros if none)
BoxOf(a) == IF HasLoan(a) THEN <<TRUE, loans[a]>> ELSE <<FALSE, LoanData(0, 0, 0)>>

\* The outcome of a call if it is made in the current state: whether it is
\* accepted, and the box of the caller after it: the box as it is if the call is
\* rejected, the three values the call writes to it if the call is accepted.
DepositOutcome(y, groupIndex, payTxn) ==
    IF depositCollateralErr(y, groupIndex, payTxn) # NoError THEN <<FALSE, BoxOf(y)>>
    ELSE <<TRUE, <<TRUE, LoanData(BoxOf(y)[2].collateralAmount + payTxn.assetAmount,
                                  BoxOf(y)[2].borrowedAmount, latestTimestamp)>>>>

BorrowOutcome(y, borrowAmount, exodPrice) ==
    IF borrowStablecoinErr(y, borrowAmount, exodPrice) # NoError THEN <<FALSE, BoxOf(y)>>
    ELSE <<TRUE, <<TRUE, LoanData(loans[y].collateralAmount,
                                  loans[y].borrowedAmount + borrowAmount, latestTimestamp)>>>>

RepayOutcome(y, groupIndex, payTxn) ==
    IF repayLoanErr(y, groupIndex, payTxn) # NoError THEN <<FALSE, BoxOf(y)>>
    ELSE <<TRUE, <<TRUE, LoanData(loans[y].collateralAmount,
                                  loans[y].borrowedAmount - payTxn.assetAmount,
                                  latestTimestamp)>>>>

WithdrawOutcome(y, withdrawAmount, exodPrice) ==
    IF withdrawCollateralErr(y, withdrawAmount, exodPrice) # NoError THEN <<FALSE, BoxOf(y)>>
    ELSE <<TRUE, <<TRUE, LoanData(loans[y].collateralAmount - withdrawAmount,
                                  loans[y].borrowedAmount, latestTimestamp)>>>>

CallOutcome(c) ==
    CASE c.op = "depositCollateral" ->
            DepositOutcome(c.sender, c.groupIndex,
                           PayTxn(c.paySender, c.payReceiver, c.payAsset, c.amount))
      [] c.op = "borrowStablecoin" -> BorrowOutcome(c.sender, c.amount, c.exodPrice)
      [] c.op = "repayLoan" ->
            RepayOutcome(c.sender, c.groupIndex,
                         PayTxn(c.paySender, c.payReceiver, c.payAsset, c.amount))
      [] c.op = "withdrawCollateral" -> WithdrawOutcome(c.sender, c.amount, c.exodPrice)

\* a step is the call last' with the outcome CallOutcome gives; a rejected call
\* changes nothing that a later call reads
StepIsCall ==
    /\ last'.ok = CallOutcome(last')[1]
    /\ \A x \in BorrowersTwo :
          x = last'.sender
          => BoxOf(x)' = IF last'.ok
                         THEN <<TRUE, BoxValue(CallOutcome(last')[2][2].collateralAmount,
                                               CallOutcome(last')[2][2].borrowedAmount,
                                               CallOutcome(last')[2][2].lastUpdateTime)>>
                         ELSE CallOutcome(last')[2]
    /\ ~last'.ok => UNCHANGED <<draft, identities, params, loans, custody, frozen,
                                latestTimestamp>>

\* the calls of y other than borrowStablecoin have the same outcome after the step
SameOutcomes(y) ==
    /\ \A g \in GroupCalls(y, "EXOD") :
          DepositOutcome(y, g[1], g[2])' = DepositOutcome(y, g[1], g[2])
    /\ \A g \in GroupCalls(y, "STABLE") :
          RepayOutcome(y, g[1], g[2])' = RepayOutcome(y, g[1], g[2])
    /\ \A a \in Amounts, p \in PricesTwo :
          WithdrawOutcome(y, a, p)' = WithdrawOutcome(y, a, p)

(* C19 as stated: for a call of one account on its own box and any call of      *)
(* another account on its own, the second is accepted or rejected alike, and    *)
(* leaves its caller the same box, whether it is made before or after the first.*)
C19_OrderIndependent ==
    [][(last'.op \in OwnOps)
        => /\ StepIsCall
           /\ last'.ok
              => \A y \in BorrowersTwo \ {last'.sender} :
                    /\ SameOutcomes(y)
                    /\ \A a \in Amounts, p \in PricesTwo :
                          BorrowOutcome(y, a, p)' = BorrowOutcome(y, a, p)]_vars

\* the vault pays a borrowStablecoin both before and after a step, or neither
SameLiquidity(borrowAmount) ==
    (borrowAmount <= appStableBalance) <=> (borrowAmount <= appStableBalance')

(* C19 amended: the same, except for a borrowStablecoin whose amount the        *)
(* application's stablecoin covers in one order and not in the other: the       *)
(* borrowers share that balance, which a borrow lowers and a repayment raises.  *)
C19_IndependentButLiquidity ==
    [][(last'.op \in OwnOps)
        => /\ StepIsCall
           /\ last'.ok
              => \A y \in BorrowersTwo \ {last'.sender} :
                    /\ SameOutcomes(y)
                    /\ \A a \in Amounts, p \in PricesTwo :
                          SameLiquidity(a)
                          => BorrowOutcome(y, a, p)' = BorrowOutcome(y, a, p)]_vars

\* an account borrowed, at a later time than the other's last write, while the other
\* has collateral for a borrow that the vault still covers
C19_Witness ==
    /\ Succeeded("borrowStablecoin") /\ last.amount > 0
    /\ \E y \in BorrowersTwo \ {last.sender} :
          /\ HasLoan(y)
          /\ loans[y].lastUpdateTime < latestTimestamp
          /\ borrowStablecoinErr(y, 1, 1000000) = NoError


(* C20: a successful updateLiquidationParams changes no box and no custody      *)
(* balance; a later borrowStablecoin or withdrawCollateral is decided with the  *)
(* collateralizationRatio, and a later liquidateLoan with the                   *)
(* liquidationThreshold, that the global state holds when the call is made.     *)
C20_NoMigration ==
    [][/\ (last'.op = "updateLiquidationParams") => UNCHANGED <<loans, custody>>
       /\ (last'.op = "borrowStablecoin" /\ HasLoan(last'.sender)
              /\ ~AddOverflows(Before.borrowedAmount, last'.amount)
              /\ Computable(Before.collateralAmount, last'.exodPrice,
                            Before.borrowedAmount + last'.amount, collateralizationRatio))
          => (last'.ok <=>
                /\ (Before.collateralAmount * last'.exodPrice) \div 1000000
                      >= ((Before.borrowedAmount + last'.amount) * collateralizationRatio)
                            \div 10000
                /\ last'.amount <= appStableBalance)
       /\ (last'.op = "withdrawCollateral" /\ HasLoan(last'.sender)
              /\ last'.amount <= Before.collateralAmount /\ Before.borrowedAmount > 0
              /\ Computable(Before.collateralAmount - last'.amount, last'.exodPrice,
                            Before.borrowedAmount, collateralizationRatio))
          => (last'.ok <=>
                ((Before.collateralAmount - last'.amount) * last'.exodPrice) \div 1000000
                   >= (Before.borrowedAmount * collateralizationRatio) \div 10000)
       /\ (last'.op = "liquidateLoan")
          => (last'.ok <=> Liquidatable(last'.borrower, last'.exodPrice))]_vars

\* an update was accepted at a later time than the last write of a loan that is, at
\* par, below the ratio the update set: the loan stands as it was
C20_Witness ==
    /\ Succeeded("updateLiquidationParams")
    /\ \E a \in DOMAIN loans :
          /\ loans[a].borrowedAmount > 0
          /\ loans[a].lastUpdateTime < latestTimestamp
          /\ CollateralValue(loans[a].collateralAmount, 1000000)
                < RequiredCollateral(loans[a].borrowedAmount, collateralizationRatio)


(* C21: getLoanInfo is a pure read.  A call of it by any account succeeds,     *)
(* returns (0, 0, 0) for an account without a box and the stored               *)
(* (collateralAmount, borrowedAmount, lastUpdateTime) otherwise, changes no    *)
(* box, parameter, identity or balance, and a second call for the same account *)
(* right after the first returns the same tuple.                               *)
C21_PureRead ==
    [][last'.op = "getLoanInfo"
        => /\ last'.ok
           /\ last'.result = IF last'.borrower \in DOMAIN loans
                             THEN <<Before.collateralAmount, Before.borrowedAmount,
                                    Before.lastUpdateTime>>
                             ELSE <<0, 0, 0>>
           /\ UNCHANGED <<draft, identities, params, loans, custody, frozen, latestTimestamp>>
           /\ (last.op = "getLoanInfo" /\ last.borrower = last'.borrower
                  => last'.result = last.result)]_vars

\* the read, by another account, of a box with collateral, debt and a time,
\* right after a read of the same box
C21_Witness ==
    /\ last.op = "getLoanInfo"
    /\ last.sender # last.borrower
    /\ last.borrower \in DOMAIN loans
    /\ last.result[1] > 0 /\ last.result[2] > 0 /\ last.result[3] > 0


(* C22: timestamp monotonicity.  In every step the lastUpdateTime of every box  *)
(* stays or grows, a box is never removed, and a successful depositCollateral,  *)
(* borrowStablecoin, repayLoan, withdrawCollateral or liquidateLoan leaves the  *)
(* box of its account with lastUpdateTime equal to the block time of the call.  *)
C22_TimestampMonotone ==
    [][/\ \A a \in DOMAIN loans :
            a \in DOMAIN loans' /\ loans'[a].lastUpdateTime >= loans[a].lastUpdateTime
       /\ (last'.ok /\ last'.op \in {"depositCollateral", "borrowStablecoin", "repayLoan",
                                     "withdrawCollateral", "liquidateLoan"}
              => /\ last'.borrower \in DOMAIN loans'
                 /\ After.lastUpdateTime = latestTimestamp
                 /\ latestTimestamp' = latestTimestamp)]_vars

\* a liquidation after the clock has advanced: the cleared box carries the new time
C22_Witness ==
    /\ Succeeded("liquidateLoan")
    /\ latestTimestamp > 0
    /\ loans[last.borrower].lastUpdateTime = latestTimestamp


(* C23: round trip.  When a successful depositCollateral of d on a loan without *)
(* debt is followed by withdrawCollateral(d) of the same account, at any price, *)
(* the withdrawal succeeds, pays d back, and leaves collateralAmount and the    *)
(* application's EXOD holding lower by d, that is at their values before the    *)
(* deposit, with borrowedAmount still 0.                                        *)
C23_RoundTrip ==
    [][(/\ Succeeded("depositCollateral")
        /\ loans[last.sender].borrowedAmount = 0
        /\ last'.op = "withdrawCollateral"
        /\ last'.sender = last.sender
        /\ last'.amount = last.amount)
       => /\ last'.ok
          /\ After.collateralAmount = Before.collateralAmount - last.amount
          /\ After.borrowedAmount = 0
          /\ appExodBalance' = appExodBalance - last.amount
          /\ last'.itxns = <<AssetTransfer(exodAssetId, last.sender, last.amount)>>]_vars


(* C24: owner exit.  On a loan with debt D > 0 and collateral C > 0, repayLoan   *)
(* by the owner with a well-formed transfer of D succeeds, whatever the          *)
(* collateral is worth, and leaves borrowedAmount 0; withdrawCollateral(C) right *)
(* after that repayment succeeds at any price, leaves the box all-zero but for   *)
(* its time, and transfers exactly C EXOD to the owner.                          *)
C24_OwnerExit ==
    [][/\ (/\ last'.op = "repayLoan"
           /\ WellPaired(last', stablecoinAssetId)
           /\ last'.sender \in DOMAIN loans
           /\ Before.borrowedAmount > 0 /\ Before.collateralAmount > 0
           /\ last'.amount = Before.borrowedAmount)
          => /\ last'.ok
             /\ After.borrowedAmount = 0
             /\ After.collateralAmount = Before.collateralAmount
       /\ (/\ Succeeded("repayLoan")
           /\ loans[last.sender].borrowedAmount = 0
           /\ loans[last.sender].collateralAmount > 0
           /\ last'.op = "withdrawCollateral"
           /\ last'.sender = last.sender
           /\ last'.amount = loans[last.sender].collateralAmount)
          => /\ last'.ok
             /\ After.collateralAmount = 0 /\ After.borrowedAmount = 0
             /\ last'.itxns = <<AssetTransfer(exodAssetId, last.sender,
                                              Before.collateralAmount)>>
             /\ appExodBalance' = appExodBalance - Before.collateralAmount]_vars

\* the whole collateral withdrawn at the largest price from a box left without
\* debt, in a vault that holds repaid stablecoin
C24_Witness ==
    /\ Succeeded("withdrawCollateral")
    /\ last.amount = MaxCollateral
    /\ last.exodPrice = 1000000000
    /\ loans[last.sender].collateralAmount = 0
    /\ loans[last.sender].borrowedAmount = 0
    /\ appStableBalance > 0


(* C25: the valuation is computed on the full product.  No borrowStablecoin,    *)
(* withdrawCollateral or liquidateLoan is rejected for a uint64 overflow: a     *)
(* product collateral * price or debt * basis points above 2^64 - 1 does not    *)
(* make the call fail.                                                          *)
C25_FullProduct ==
    last.op \in {"borrowStablecoin", "withdrawCollateral", "liquidateLoan"}
        => last.err # Overflow


\* the debt a borrowStablecoin call is decided on, read in the state after the call
DecidedDebt ==
    IF last.ok THEN loans[last.sender].borrowedAmount
    ELSE loans[last.sender].borrowedAmount + last.amount

(* C26 as stated: for the debt and the price of a borrowStablecoin call, with   *)
(* a = calculateRequiredCollateral(debt, ratio, price), a units of collateral   *)
(* satisfy collateralValue(a, price) * 10000 >= debt * ratio, the right-hand    *)
(* side not floored; an accepted borrow has at least a units of collateral.     *)
C26_RequiredExact ==
    (last.op = "borrowStablecoin" /\ last.exodPrice > 0 /\ HasLoan(last.sender))
    => LET a == calculateRequiredCollateral(DecidedDebt, collateralizationRatio, last.exodPrice)
       IN /\ CollateralValue(a, last.exodPrice) * 10000 >= DecidedDebt * collateralizationRatio
          /\ last.ok => loans[last.sender].collateralAmount >= a

(* C26 amended: with a = calculateRequiredCollateral(debt, ratio, price), a      *)
(* units of collateral are worth at least floor(debt * ratio / 10000) at that    *)
(* price, which is what borrowStablecoin asserts; a borrow is accepted only      *)
(* with at least a units, so one with a - 1 units is rejected; and a borrow      *)
(* rejected for insufficient collateral has fewer than a units.                  *)
C26_RequiredFloored ==
    (last.op = "borrowStablecoin" /\ last.exodPrice > 0 /\ HasLoan(last.sender))
    => LET a == calculateRequiredCollateral(DecidedDebt, collateralizationRatio, last.exodPrice)
       IN /\ CollateralValue(a, last.exodPrice)
                 >= RequiredCollateral(DecidedDebt, collateralizationRatio)
          /\ last.ok => loans[last.sender].collateralAmount >= a
          /\ last.err = "Insufficient collateral for borrow amount"
                 => loans[last.sender].collateralAmount < a

\* a borrow rejected on a box that holds one unit less than the two units required
C26_Witness ==
    /\ last.op = "borrowStablecoin" /\ ~last.ok /\ last.exodPrice > 0
    /\ HasLoan(last.sender)
    /\ last.amount > 0
    /\ calculateRequiredCollateral(DecidedDebt, collateralizationRatio, last.exodPrice) = 2
    /\ loans[last.sender].collateralAmount = 1


(* C27: immutable identities.  In every reachable state exodAssetId,            *)
(* stablecoinAssetId and liquidationAddress hold the values createApplication   *)
(* was given; no call, a successful updateLiquidationParams included, changes   *)
(* them.                                                                        *)
C27_ImmutableIdentities ==
    /\ exodAssetId = "EXOD"
    /\ stablecoinAssetId = "STABLE"
    /\ liquidationAddress = "treasury"

\* a successful update of the parameters, with a loan in the vault
C27_Witness ==
    /\ Succeeded("updateLiquidationParams")
    /\ collateralizationRatio = last.newRatio
    /\ liquidationThreshold = last.newThreshold
    /\ \E a \in DOMAIN loans : loans[a].borrowedAmount > 0
    /\ identities = <<"EXOD", "STABLE", "treasury">>


(* C28: borrow checks the total.  An accepted borrowStablecoin(delta, price) is  *)
(* one whose collateral value at that price covers the requirement of            *)
(* borrowedAmount + delta; it sets borrowedAmount to exactly borrowedAmount +    *)
(* delta, leaves the collateral, and sends exactly delta of the stablecoin to    *)
(* the caller.  A rejected one changes no box and no holding and sends nothing.  *)
C28_BorrowChecksTotal ==
    [][last'.op = "borrowStablecoin"
        => IF last'.ok
           THEN /\ last'.sender \in DOMAIN loans
                /\ MaintainsRatio(CollateralValue(Before.collateralAmount, last'.exodPrice),
                                  RequiredCollateral(Before.borrowedAmount + last'.amount,
                                                     collateralizationRatio))
                /\ After.borrowedAmount = Before.borrowedAmount + last'.amount
                /\ After.collateralAmount = Before.collateralAmount
                /\ last'.itxns = <<AssetTransfer(stablecoinAssetId, last'.sender, last'.amount)>>
                /\ appStableBalance' = appStableBalance - last'.amount
           ELSE /\ UNCHANGED <<loans, custody>>
                /\ last'.itxns = << >>]_vars

\* a second borrow accepted on top of an earlier debt
C28_Witness ==
    /\ Succeeded("borrowStablecoin")
    /\ last.amount > 0
    /\ loans[last.sender].borrowedAmount > last.amount
    /\ last.itxns = <<AssetTransfer(stablecoinAssetId, last.sender, last.amount)>>


(* C29: deposit accumulates exactly.  A successful depositCollateral of delta    *)
(* leaves the caller's collateralAmount at its value before the call (0 when     *)
(* the account had no box) plus delta and its borrowedAmount as it was (0 for a  *)
(* new box), and raises the application's EXOD holding by delta; with no         *)
(* withdrawal or liquidation in between, the collateral after any number of      *)
(* deposits is therefore the earlier value plus the sum of the amounts.          *)
C29_DepositAccumulates ==
    [][(last'.op = "depositCollateral" /\ last'.ok)
        => /\ last'.sender \in DOMAIN loans'
           /\ After.collateralAmount = getLoanInfo(last'.sender)[1] + last'.amount
           /\ After.borrowedAmount = getLoanInfo(last'.sender)[2]
           /\ appExodBalance' = appExodBalance + last'.amount]_vars

\* a deposit on top of collateral already held, on a loan with debt
C29_Witness ==
    /\ Succeeded("depositCollateral")
    /\ loans[last.sender].collateralAmount > last.amount
    /\ loans[last.sender].borrowedAmount > 0


\* the two health predicates of a loan at a price, as the contract computes them
SatisfiesRequirement(loan, exodPrice) ==
    MaintainsRatio(CollateralValue(loan.collateralAmount, exodPrice),
                   RequiredCollateral(loan.borrowedAmount, collateralizationRatio))

UnderThreshold(loan, exodPrice) ==
    UnderCollateralized(CollateralValue(loan.collateralAmount, exodPrice),
                        ThresholdValue(loan.borrowedAmount, liquidationThreshold))

(* C30: deposit and repay only improve health.  At every price whose products   *)
(* fit, a loan that satisfies the collateral requirement before a successful    *)
(* depositCollateral or repayLoan satisfies it after the call, and one that is  *)
(* not under the liquidation threshold before is not under it after.  Neither   *)
(* call looks at the health: a well-formed deposit of a positive amount by an   *)
(* account that passes the frozen check, and a well-formed repayment of a       *)
(* positive amount within the debt, are accepted whatever the loan is worth.    *)
C30_OnlyImproveHealth ==
    [][/\ (last'.ok /\ last'.op \in {"depositCollateral", "repayLoan"}
              /\ last'.sender \in DOMAIN loans)
          => \A p \in Prices :
                ~MulOverflows(After.collateralAmount, p)
                => /\ SatisfiesRequirement(Before, p) => SatisfiesRequirement(After, p)
                   /\ ~UnderThreshold(Before, p) => ~UnderThreshold(After, p)
       /\ (/\ last'.op = "depositCollateral"
           /\ WellPaired(last', exodAssetId)
           /\ last'.amount > 0
           /\ FrozenCheck(last'.sender)
           /\ ~(HasLoan(last'.sender) /\ AddOverflows(Before.collateralAmount, last'.amount)))
          => last'.ok
       /\ (/\ last'.op = "repayLoan"
           /\ WellPaired(last', stablecoinAssetId)
           /\ last'.amount > 0
           /\ HasLoan(last'.sender)
           /\ last'.amount <= Before.borrowedAmount)
          => last'.ok]_vars

\* a repayment accepted on a loan that is under the liquidation threshold at
\* half the unit price, before the repayment and after it
C30_Witness ==
    /\ Succeeded("repayLoan")
    /\ loans[last.sender].borrowedAmount > 0
    /\ UnderThreshold(loans[last.sender], 500000)


(* C31: position lifecycle.  A box that exists before a step exists after it,   *)
(* and a box that comes into existence in a step is the box of the sender of a  *)
(* successful depositCollateral: withdrawals, repayments and liquidations reset *)
(* amounts and never remove or create a box.                                    *)
C31_Lifecycle ==
    [][/\ DOMAIN loans \subseteq DOMAIN loans'
       /\ \A a \in DOMAIN loans' \ DOMAIN loans :
             /\ last'.op = "depositCollateral" /\ last'.ok
             /\ last'.sender = a
             /\ loans'[a].collateralAmount = last'.amount
             /\ loans'[a].borrowedAmount = 0]_vars

\* the box is still there, all-zero, after a liquidation called by the beneficiary
C31_Witness ==
    /\ Succeeded("liquidateLoan")
    /\ HasLoan(last.borrower)
    /\ loans[last.borrower].collateralAmount = 0
    /\ loans[last.borrower].borrowedAmount = 0
    /\ last.sender = "treasury"


\* whether a call is accepted, and the two amounts of the caller's box after it
AcceptedAndAmounts(outcome) ==
    <<outcome[1], outcome[2][2].collateralAmount, outcome[2][2].borrowedAmount>>

(* C32: empty equals never-existed.  When one account has a box with            *)
(* collateralAmount 0 and borrowedAmount 0 and another has no box, every call   *)
(* with the same arguments (the paired transfer coming from the caller) is      *)
(* accepted for both or rejected for both and leaves both the same two          *)
(* amounts; a liquidation of either is rejected or accepted alike.              *)
C32_EmptyEqualsNeverExisted ==
    \A x \in BorrowersTwo, y \in BorrowersTwo :
        (HasLoan(x) /\ loans[x].collateralAmount = 0 /\ loans[x].borrowedAmount = 0
            /\ ~HasLoan(y))
        => /\ \A amount \in Amounts :
                /\ AcceptedAndAmounts(DepositOutcome(x, 1, PayTxn(x, App, exodAssetId, amount)))
                      = AcceptedAndAmounts(DepositOutcome(y, 1, PayTxn(y, App, exodAssetId, amount)))
                /\ AcceptedAndAmounts(RepayOutcome(x, 1, PayTxn(x, App, stablecoinAssetId, amount)))
                      = AcceptedAndAmounts(RepayOutcome(y, 1, PayTxn(y, App, stablecoinAssetId, amount)))
           /\ \A amount \in Amounts, p \in PricesTwo :
                /\ AcceptedAndAmounts(BorrowOutcome(x, amount, p))
                      = AcceptedAndAmounts(BorrowOutcome(y, amount, p))
                /\ AcceptedAndAmounts(WithdrawOutcome(x, amount, p))
                      = AcceptedAndAmounts(WithdrawOutcome(y, amount, p))
           /\ \A p \in PricesTwo :
                (liquidateLoanErr(x, p) = NoError) <=> (liquidateLoanErr(y, p) = NoError)


TotalCollateral ==
    LET RECURSIVE Sum(_)
        Sum(S) == IF S = {} THEN 0
                  ELSE LET a == CHOOSE x \in S : TRUE
                       IN loans[a].collateralAmount + Sum(S \ {a})
    IN Sum(DOMAIN loans)

(* C34: collateral custody conservation.  In every reachable state the EXOD     *)
(* held by the application equals the sum of collateralAmount over the boxes,   *)
(* and no withdrawCollateral or liquidateLoan that passed its asserts fails in  *)
(* its transfer.                                                                *)
C34_CustodyConservation ==
    /\ appExodBalance = TotalCollateral
    /\ last.op \in {"withdrawCollateral", "liquidateLoan"} => last.err # InnerTxnFailed

\* one loan liquidated while the other account's collateral stays in custody
C34_Witness ==
    /\ Succeeded("liquidateLoan")
    /\ appExodBalance > 0
    /\ \E a \in DOMAIN loans : a # last.borrower /\ loans[a].collateralAmount = appExodBalance
    /\ last.itxns[1].assetAmount > 0


(* C35: no unbacked debt.  With collateralizationRatio above 10000, in every     *)
(* reachable state every box with borrowedAmount > 0 has collateralAmount > 0,   *)
(* whatever prices the callers supplied, and no liquidateLoan of a box with      *)
(* debt is rejected for having no collateral.                                    *)
C35_NoUnbackedDebt ==
    collateralizationRatio > 10000
    => /\ \A a \in DOMAIN loans : loans[a].borrowedAmount > 0 => loans[a].collateralAmount > 0
       /\ last.op = "liquidateLoan" => last.err # "No collateral to liquidate"

\* a withdrawal accepted at the largest price on a loan with debt: collateral is left
C35_Witness ==
    /\ Succeeded("withdrawCollateral")
    /\ last.amount > 0
    /\ last.exodPrice = 1000000000
    /\ loans[last.sender].borrowedAmount > 0
    /\ loans[last.sender].collateralAmount > 0
    /\ collateralizationRatio > 10000


(* C36: no instant liquidation.  With collateralizationRatio above              *)
(* liquidationThreshold, in the state right after an accepted borrowStablecoin  *)
(* or withdrawCollateral at price p, the asserts of liquidateLoan reject a     *)
(* liquidation of that account at the same price p.                             *)
C36_NoInstantLiquidation ==
    (last.op \in {"borrowStablecoin", "withdrawCollateral"} /\ last.ok
        /\ collateralizationRatio > liquidationThreshold)
    => liquidateLoanErr(last.sender, last.exodPrice) # NoError

\* a borrow accepted at the unit price that leaves a debt worth as much as the collateral
C36_Witness ==
    /\ Succeeded("borrowStablecoin")
    /\ last.amount > 0
    /\ last.exodPrice = 1000000
    /\ collateralizationRatio > liquidationThreshold
    /\ loans[last.sender].borrowedAmount = loans[last.sender].collateralAmount
    /\ liquidateLoanErr(last.sender, last.exodPrice) = "Loan is sufficiently collateralized"


(* C37: debt-asset accounting.  The stablecoin held by the application plus the  *)
(* sum of borrowedAmount over the boxes starts at 0, rises in a step by exactly  *)
(* the amount of an accepted fundVault, falls by exactly the debt of the box an  *)
(* accepted liquidateLoan clears, and is unchanged by every other step; a        *)
(* liquidation leaves the application's stablecoin holding as it was.  The sum   *)
(* is therefore the total funded minus the debt cleared by liquidations.         *)
C37_DebtAssetAccounting ==
    [][/\ last'.op = "fundVault" /\ last'.ok
            => appStableBalance' + TotalDebt' = appStableBalance + TotalDebt + last'.amount
       /\ last'.op = "liquidateLoan" /\ last'.ok
            => /\ appStableBalance' + TotalDebt'
                     = appStableBalance + TotalDebt - Before.borrowedAmount
               /\ appStableBalance' = appStableBalance
               /\ \A i \in 1..Len(last'.itxns) : last'.itxns[i].xferAsset # stablecoinAssetId
       /\ ~(last'.ok /\ last'.op \in {"fundVault", "liquidateLoan"})
            => appStableBalance' + TotalDebt' = appStableBalance + TotalDebt]_vars

\* a liquidation that wrote off the debt of one account while the other still owes:
\* the vault is empty and the sum is below what was funded
C37_Witness ==
    /\ Succeeded("liquidateLoan")
    /\ appStableBalance = 0
    /\ TotalDebt = 1
    /\ \E a \in DOMAIN loans : a # last.borrower /\ loans[a].borrowedAmount = 1


\* The verdicts of the three priced calls written out on a box, the parameters,
\* the arguments of the call and, for the borrow, the stablecoin the application
\* holds: nothing of an earlier call enters them.
BorrowVerdict(box, borrowAmount, exodPrice) ==
    /\ ~MulOverflows(box.collateralAmount, exodPrice)
    /\ ~MulOverflows(box.borrowedAmount + borrowAmount, collateralizationRatio)
    /\ (box.collateralAmount * exodPrice) \div 1000000
          >= ((box.borrowedAmount + borrowAmount) * collateralizationRatio) \div 10000
    /\ appStableBalance >= borrowAmount

WithdrawVerdict(box, withdrawAmount, exodPrice) ==
    /\ box.collateralAmount >= withdrawAmount
    /\ ~MulOverflows(box.collateralAmount - withdrawAmount, exodPrice)
    /\ box.borrowedAmount > 0
          => /\ ~MulOverflows(box.borrowedAmount, collateralizationRatio)
             /\ ((box.collateralAmount - withdrawAmount) * exodPrice) \div 1000000
                   >= (box.borrowedAmount * collateralizationRatio) \div 10000

LiquidateVerdict(box, exodPrice) ==
    /\ box.borrowedAmount > 0
    /\ box.collateralAmount > 0
    /\ ~MulOverflows(box.collateralAmount, exodPrice)
    /\ ~MulOverflows(box.borrowedAmount, liquidationThreshold)
    /\ (box.collateralAmount * exodPrice) \div 1000000
          < (box.borrowedAmount * liquidationThreshold) \div 10000

(* C38: unchecked price input.  A borrowStablecoin, withdrawCollateral or        *)
(* liquidateLoan on an existing box is accepted exactly when the valuation of    *)
(* the box at the price of that call, with the parameters of that moment,        *)
(* allows it (and, for a borrow, the application holds the amount): the price    *)
(* is not bounded and not compared with the price of any earlier call.  So       *)
(* with liquidationThreshold above 10000, a liquidateLoan at price 0 of a box    *)
(* with debt and collateral succeeds, whoever calls it.                          *)
C38_UncheckedPrice ==
    [][(last'.op \in {"borrowStablecoin", "withdrawCollateral", "liquidateLoan"}
            /\ last'.borrower \in DOMAIN loans)
        => /\ last'.op = "borrowStablecoin"
                => (last'.ok <=> BorrowVerdict(Before, last'.amount, last'.exodPrice))
           /\ last'.op = "withdrawCollateral"
                => (last'.ok <=> WithdrawVerdict(Before, last'.amount, last'.exodPrice))
           /\ last'.op = "liquidateLoan"
                => /\ last'.ok <=> LiquidateVerdict(Before, last'.exodPrice)
                   /\ (/\ liquidationThreshold > 10000
                       /\ Before.borrowedAmount > 0 /\ Before.collateralAmount > 0
                       /\ last'.exodPrice = 0)
                      => last'.ok]_vars

\* the largest collateral seized in a liquidation at price 0, called by an account
\* that is neither the borrower nor the creator
C38_Witness ==
    /\ Succeeded("liquidateLoan")
    /\ last.exodPrice = 0
    /\ last.sender = "treasury"
    /\ liquidationThreshold > 10000
    /\ last.itxns[1].assetAmount = MaxCollateral


(* C39: record encoding round trip.  The encoding of three values is 24 bytes,   *)
(* each field the big-endian eight bytes of its value at offsets 0, 8 and 16;    *)
(* decodeLoanData of either bytes draft returns the three values encoded, and    *)
(* the off-chain decodeLoanData reads the same three values from the same bytes. *)
C39_EncodingRoundTrip ==
    last.op = "encodeLoanData"
    => /\ Len(last.data) = 24
       /\ \A i \in 1..24 : last.data[i] \in 0..255
       /\ \A k \in 0..2 :
             btoi(SubSeq(last.data, 8 * k + 1, 8 * k + 8))
                = <<last.collateral, last.borrowed, last.timestamp>>[k + 1]
       /\ last.decoded = <<last.collateral, last.borrowed, last.timestamp>>
       /\ last.decodedExtract = last.decoded
       /\ last.decodedOffChain = last.decoded

\* three different multi-byte values, the largest in the collateral
C39_Witness ==
    /\ last.op = "encodeLoanData"
    /\ last.collateral = 2147483647
    /\ last.borrowed = 65537
    /\ last.timestamp = 256
    /\ last.data[5] = 127 /\ last.data[14] = 1 /\ last.data[23] = 1

====
